---- MODULE Spec2Model ----
(***************************************************************************)
(* Model of cubitpy's conversion of a meshed cubit session to a 4C input   *)
(* deck (src/src/cubitpy/cubit_to_fourc_input.py).                         *)
(*                                                                         *)
(* A deck (FourCInput) is a function from the names of its sections to     *)
(* sequences of records. The boundary-condition description of a node set  *)
(* is a mutable dictionary owned by the session: a deck that received it   *)
(* holds the very same object, so a BC record of a deck is a reference     *)
(* [ref |-> native id] into bc_description and is read through Deref.      *)
(***************************************************************************)
EXTENDS Integers, Sequences, FiniteSets, TLC

\* ------------------------------------------------------------------ bounds

\* Native ids are 1..MaxEntities, and the part of a session that is varied
\* holds at most MaxEntities node sets, blocks or pre-mesh sections.
MaxEntities == 2
\* Connectivity rows per block of the exchange file.
MaxRows == 3
\* Coordinate rows of the exchange file.
MaxNodes == 2
\* Offsets of the node numbers of a connectivity handed to
\* get_element_connectivity_list on its own.
MaxOffset == 7
\* Entries per category of an exchange file handed to _exo_to_cubit_ids on
\* its own, and the width of its name buffers.
MaxEntries == 2
NameWidth == 3
\* Plain positional arguments of one call of formatter; a call with lists
\* among several arguments has up to one argument more.
MaxArgs == 2
\* Conversions of one session, one after another.
MaxCalls == 2

\* ----------------------------------------------------------------- helpers

None == "<None>"

Range(s) == {s[i] : i \in 1..Len(s)}

InjectiveSeqs(S, n) ==
    UNION {{s \in [1..k -> S] : \A i, j \in 1..k : i # j => s[i] # s[j]} : k \in 0..n}

\* dict[key] = value
Put(d, k, v) == [x \in DOMAIN d \cup {k} |-> IF x = k THEN v ELSE d[x]]

RECURSIVE SetToSortedSeq(_)
SetToSortedSeq(S) ==
    IF S = {} THEN <<>>
    ELSE LET m == CHOOSE x \in S : \A y \in S : x <= y
         IN <<m>> \o SetToSortedSeq(S \ {m})

\* numpy's in-place ascending sort of an integer array (insertion of the
\* head into the sorted tail, duplicates kept).
RECURSIVE InsertSorted(_, _)
InsertSorted(x, s) ==
    IF s = <<>> THEN <<x>>
    ELSE IF x <= Head(s) THEN <<x>> \o s
    ELSE <<Head(s)>> \o InsertSorted(x, Tail(s))

RECURSIVE Sorted(_)
Sorted(s) == IF s = <<>> THEN <<>> ELSE InsertSorted(Head(s), Sorted(Tail(s)))

\* --------------------------------------------------- cupy.geometry, types

vertex == "vertex"
curve == "curve"
surface == "surface"
volume == "volume"
GeometryType == {vertex, curve, surface, volume}

\* Element type descriptors of the blocks: get_four_c_section,
\* get_four_c_name, get_four_c_type and the number of nodes of one element.
ElementType == {"hex8", "hex27", "hex8_fluid"}

get_four_c_section(ele_type) ==
    IF ele_type = "hex8_fluid" THEN "FLUID" ELSE "STRUCTURE"

get_four_c_name(ele_type) ==
    IF ele_type = "hex8_fluid" THEN "FLUID" ELSE "SOLID"

get_four_c_type(ele_type) ==
    IF ele_type = "hex27" THEN "HEX27" ELSE "HEX8"

NodesPerElement(ele_type) == IF ele_type = "hex27" THEN 27 ELSE 8

\* The cubit scheme and the cubit element name of an element type.
get_cubit_names(ele_type) ==
    IF ele_type = "hex27" THEN <<"hex", "HEX27">> ELSE <<"hex", "HEX8">>

\* BC sections a node set can name.
BCSections == {"DESIGN POINT DIRICH CONDITIONS", "DESIGN LINE DIRICH CONDITIONS"}

TopologySections ==
    {"DNODE-NODE TOPOLOGY", "DLINE-NODE TOPOLOGY", "DSURF-NODE TOPOLOGY",
     "DVOL-NODE TOPOLOGY"}

ElementSections == {"STRUCTURE ELEMENTS", "FLUID ELEMENTS"}

\* Sections the pre-mesh deck of the session may already hold.
PreMeshSections ==
    BCSections \cup TopologySections \cup ElementSections \cup {"NODE COORDS"}

\* ------------------------------------------------------------------- state

VARIABLES
    node_sets,       \* cubit.node_sets: native id -> [bc_section, geometry_type]
    bc_description,  \* the bc_description dictionary of each node set
    blocks,          \* cubit.blocks: native id -> [ele_type, block_dict]
    fourc_input,     \* cubit.fourc_input, the pre-mesh deck
    exo,             \* the exchange file cubit.export_exo writes
    exo_state,       \* "unopened", "open" or "closed": the netCDF4 handle
    input_file,      \* the deck the running call fills
    same_deck,       \* whether input_file is the object cubit.fourc_input
    pc,              \* position of the running call
    mode,            \* "none", "embedded" or "external"
    connectivity,    \* get_element_connectivity_list on its own: argument,
    ordered,         \*   its result and
    ordered_twice,   \*   the result of applying it to its result, when
                     \*   that call returns (pc "conn_raised" when it raises)
    entry_type,      \* _exo_to_cubit_ids on its own: argument and
    ids_result,      \*   result
    block_order,     \* the keys of cubit.blocks in the order of cubit.blocks.items()
    rel_exo_file_path,  \* add_exodus_geometry_section: its path argument
    fmt_args,        \* formatter on its own: its positional arguments,
    fmt_geometry_type,  \* its geometry_type argument,
    fmt_result,      \*   its result and
    fmt_elements,    \*   its result on the elements of a single iterable argument
    calls,           \* the conversions of the session that have handed back a deck
    first_deck,      \* the deck the first of them handed back, held by its caller
    first_seen       \*   and the records the caller saw in it then

vars ==
    <<node_sets, bc_description, blocks, fourc_input, exo, exo_state,
      input_file, same_deck, pc, mode, connectivity, ordered, ordered_twice, entry_type,
      ids_result, block_order, rel_exo_file_path, fmt_args, fmt_geometry_type,
      fmt_result, fmt_elements, calls, first_deck, first_seen>>

sessionVars == <<node_sets, bc_description, blocks, fourc_input, exo>>
callVars == <<exo_state, input_file, same_deck, mode>>
connVars == <<connectivity, ordered, ordered_twice>>
idsVars == <<entry_type, ids_result>>
geoVars == <<block_order, rel_exo_file_path>>
fmtVars == <<fmt_args, fmt_geometry_type, fmt_result, fmt_elements>>
ownVars == <<calls, first_deck, first_seen>>
restVars == <<geoVars, fmtVars, ownVars>>

\* The value of a deck record: a BC record is the node set's dictionary.
Deref(rec) == IF "ref" \in DOMAIN rec THEN bc_description[rec.ref] ELSE rec

\* ------------------------------------------------------- _exo_to_cubit_ids

\* A character of a fixed-width name buffer as netCDF4 hands it out: a
\* masked entry (no bytes object), or a bytes object holding no character
\* ("", the NUL padding), a blank or a letter.
Masked == "masked"
NameChars == {Masked, "", " ", "a", "b"}

\* name = ""; for char in line: if isinstance(char, np.bytes_): name +=
\* char.decode("UTF-8"). A name is the sequence of its characters.
RECURSIVE DecodeName(_)
DecodeName(line) ==
    IF line = <<>> THEN <<>>
    ELSE IF Head(line) = Masked \/ Head(line) = "" THEN DecodeName(Tail(line))
    ELSE <<Head(line)>> \o DecodeName(Tail(line))

\* The empty name is kept.
NameOrNone_Empty(line) == DecodeName(line)

\* if name == "": name = None
NameOrNone(line) == IF DecodeName(line) = <<>> THEN <<None>> ELSE DecodeName(line)

ExoIdentifier(type) ==
    IF type = "block" THEN "eb" ELSE IF type = "nodeset" THEN "ns" ELSE None

Prop1(file, type) == IF type = "block" THEN file.eb_prop1 ELSE file.ns_prop1

Names(file, type) == IF type = "block" THEN file.eb_names ELSE file.ns_names

\* for i, cubit_id in enumerate(prop1): info = {cubit_id, exo_id: i, name}
EntriesInfo(file, type) ==
    [k \in 1..Len(Prop1(file, type)) |->
        [cubit_id |-> Prop1(file, type)[k],
         exo_id |-> k - 1,
         name |-> NameOrNone(Names(file, type)[k])]]

\* cubit_id_to_exo_id[cubit_id] = i: a later entry with the same id replaces
\* an earlier one.
CubitIdToExoId(prop1) ==
    [c \in Range(prop1) |->
        (CHOOSE k \in 1..Len(prop1) :
            prop1[k] = c /\ \A j \in 1..Len(prop1) : prop1[j] = c => j <= k) - 1]

\* The map keyed by the one-based position.
ExoIdToCubitId_OneBased(prop1) == [i \in 1..Len(prop1) |-> prop1[i]]

\* exo_id_to_cubit_id[i] = cubit_id
ExoIdToCubitId(prop1) == [i \in 0..(Len(prop1) - 1) |-> prop1[i + 1]]

\* exo.variables[name] of a variable the file does not hold raises KeyError.
HasVariable(file, name) == name \in DOMAIN file

_exo_to_cubit_ids(file, type) ==
    IF ExoIdentifier(type) = None
    THEN [raised |-> "ValueError"]
    ELSE IF ~HasVariable(file, ExoIdentifier(type) \o "_names")
            \/ ~HasVariable(file, ExoIdentifier(type) \o "_prop1")
    THEN [raised |-> "KeyError"]
    ELSE [raised |-> None,
          entries_info |-> EntriesInfo(file, type),
          cubit_id_to_exo_id |-> CubitIdToExoId(Prop1(file, type)),
          exo_id_to_cubit_id |-> ExoIdToCubitId(Prop1(file, type))]

\* ------------------------------------------- get_element_connectivity_list

\* The hex27 ordering (zero-based positions of the input).
Hex27Ordering ==
    <<0, 1, 2, 3, 4, 5, 6, 7, 8, 9, 10, 11, 12, 13, 14, 15, 16, 17, 18, 19,
      21, 25, 24, 26, 23, 22, 20>>

\* The last seven nodes of a hex27 taken in descending order.
get_element_connectivity_list_Descending(conn) ==
    IF Len(conn) = 27
    THEN [i \in 1..27 |-> IF i <= 20 THEN conn[i] ELSE conn[48 - i]]
    ELSE conn

\* The argument is a row of the connect variable, an array; the result is a
\* list either way.
get_element_connectivity_list(conn) ==
    IF Len(conn) = 27
    THEN [i \in 1..27 |-> conn[Hex27Ordering[i] + 1]]
    ELSE conn

\* "return connectivity.tolist()" on a list, which has no tolist: the
\* function handed one of its own results of a length other than 27 raises
\* AttributeError; a list of 27 is indexed like an array.
TolistRaises(conn) == Len(conn) # 27

\* ---------------------------------------------------------- deck writing

\* key in input_file.inlined.keys() / input_file.sections.keys()
HasSection(deck, name) == name \in DOMAIN deck

\* input_file[name] = []
NewSection(deck, name) == Put(deck, name, <<>>)

\* input_file[name].append(record)
AppendRecord(deck, name, record) == Put(deck, name, Append(deck[name], record))

\* if name not in input_file...keys(): input_file[name] = []
EnsureSection(deck, name) ==
    IF HasSection(deck, name) THEN deck ELSE NewSection(deck, name)

\* The deck of the session itself in place of a copy.
CopyDeck_SameObject(deck) == [sections |-> deck, same_deck |-> TRUE]

\* cubit.fourc_input.copy(): a deep copy, an object of its own.
CopyDeck(deck) == [sections |-> deck, same_deck |-> FALSE]

\* ----------------------------------------- add_node_sets_external_geometry

\* One pass of "for node_set_id in node_set_keys_sorted" on the state
\* [input_file, bc_description].
ExternalStep(st, node_set_id) ==
    LET bc_section == node_sets[node_set_id].bc_section
        withE == Put(st.bc_description[node_set_id], "E", node_set_id)
        withType == Put(withE, "ENTITY_TYPE", "node_set_id")
    IN IF bc_section = None THEN st
       ELSE [input_file |->
                AppendRecord(EnsureSection(st.input_file, bc_section),
                             bc_section, [ref |-> node_set_id]),
             bc_description |->
                [st.bc_description EXCEPT ![node_set_id] = withType]]

RECURSIVE ExternalLoop(_, _)
ExternalLoop(st, keys) ==
    IF keys = <<>> THEN st
    ELSE ExternalLoop(ExternalStep(st, Head(keys)), Tail(keys))

RECURSIVE Reverse(_)
Reverse(s) == IF s = <<>> THEN <<>> ELSE Append(Reverse(Tail(s)), Head(s))

\* The keys of a registry filled in descending order, left unsorted.
NodeSetKeys_Descending == Reverse(SetToSortedSeq(DOMAIN node_sets))

\* node_set_keys_sorted = sorted(cubit.node_sets.keys())
NodeSetKeysSorted == SetToSortedSeq(DOMAIN node_sets)

add_node_sets_external_geometry(deck) ==
    IF Cardinality(DOMAIN node_sets) = 0
    THEN [input_file |-> deck, bc_description |-> bc_description]
    ELSE ExternalLoop([input_file |-> deck, bc_description |-> bc_description],
                      NodeSetKeysSorted)

\* --------------------------------------------- add_exodus_geometry_section

GeometrySections == {"STRUCTURE GEOMETRY", "FLUID GEOMETRY"}

\* The deck lacks the geometry section and every block appends to a new one.
HasGeometrySection_Never(deck, key) == FALSE

\* not (input_file.sections.get(cur_geometry_section_key) is None)
HasGeometrySection(deck, key) == key \in DOMAIN deck

\* The section a first block creates.
NewGeometrySection(path) ==
    [FILE |-> path, SHOW_INFO |-> "detailed_summary", ELEMENT_BLOCKS |-> <<>>]

\* {"ID": cur_block_id, four_c_element_name: {cubit_element_name: cur_block_data[1]}}
ElementBlockDict(cur_block_id) ==
    LET cur_block_data == blocks[cur_block_id]
        four_c_element_name == get_four_c_name(cur_block_data.ele_type)
        cubit_element_name == get_cubit_names(cur_block_data.ele_type)[2]
    IN ("ID" :> cur_block_id)
       @@ (four_c_element_name :> (cubit_element_name :> cur_block_data.block_dict))

\* One pass of "for cur_block_id, cur_block_data in cubit.blocks.items()".
GeometryStep(deck, cur_block_id, path) ==
    LET key == get_four_c_section(blocks[cur_block_id].ele_type) \o " GEOMETRY"
        created ==
            IF HasGeometrySection(deck, key) THEN deck
            ELSE Put(deck, key, NewGeometrySection(path))
    IN Put(created, key,
           [created[key] EXCEPT
                !.ELEMENT_BLOCKS = Append(@, ElementBlockDict(cur_block_id))])

RECURSIVE GeometryLoop(_, _, _)
GeometryLoop(deck, keys, path) ==
    IF keys = <<>> THEN deck
    ELSE GeometryLoop(GeometryStep(deck, Head(keys), path), Tail(keys), path)

add_exodus_geometry_section(deck, path) == GeometryLoop(deck, block_order, path)

\* -------------------------------------------------------------- formatter

\* An argument of formatter is an int [kind "int", id], a CubitObject with a
\* geometry type [kind "object", object_type, id], a body [kind "object",
\* object_type "body", sheet, objects: the ids of its surfaces if it is a
\* sheet body and of its volumes if not], a CubitObject of another object
\* type, a CubitGroup [kind "group", geometry_type, item_ids], a list or
\* tuple [kind "iterable", items] or a value of any other type [kind "other"].

\* GeometryType.get_cubit_string()
get_cubit_string(geometry_type) == geometry_type

\* " ".join(map(str, item_list)) of a list that is not empty
RECURSIVE JoinIds(_)
JoinIds(item_list) ==
    IF Len(item_list) = 1 THEN ToString(Head(item_list))
    ELSE ToString(Head(item_list)) \o " " \o JoinIds(Tail(item_list))

\* The item ids in front of the list.
AppendItems_InFront(item_list, ids) == ids \o item_list

\* item_list.append(item_id), for each id in turn
AppendItems(item_list, ids) == item_list \o ids

\* Any set of geometry types passes.
OneGeometryType_Unchecked(geometry_types) == TRUE

\* len(geometry_types) == 1
OneGeometryType(geometry_types) == Cardinality(geometry_types) = 1

\* The state of a call: what it raised, geometry_types and item_list.
FormatStart(geometry_type) ==
    [raised |-> None,
     geometry_types |-> IF geometry_type # None THEN {geometry_type} ELSE {},
     item_list |-> <<>>]

\* One pass of "for index, argument in enumerate(args)" for an argument
\* that is no list or tuple.
FormatStep(st, argument) ==
    IF argument.kind = "group"
    THEN [st EXCEPT
            !.geometry_types = @ \cup {argument.geometry_type},
            !.item_list = AppendItems(@, argument.item_ids)]
    ELSE IF argument.kind = "object"
    THEN IF argument.object_type = "body"
         THEN IF Len(argument.objects) # 1
              THEN [st EXCEPT !.raised = "ValueError"]
              ELSE [st EXCEPT
                        !.geometry_types =
                            @ \cup {IF argument.sheet THEN surface ELSE volume},
                        !.item_list = AppendItems(@, <<argument.objects[1]>>)]
         ELSE IF argument.object_type \in GeometryType
         THEN [st EXCEPT
                    !.geometry_types = @ \cup {argument.object_type},
                    !.item_list = AppendItems(@, <<argument.id>>)]
         ELSE [st EXCEPT !.raised = "TypeError"]
    ELSE IF argument.kind = "int"
    THEN [st EXCEPT !.item_list = AppendItems(@, <<argument.id>>)]
    ELSE [st EXCEPT !.raised = "TypeError"]

\* The checks after the loop and the returned string.
FormatReturn(st) ==
    IF st.raised # None THEN [raised |-> st.raised]
    ELSE IF Cardinality(st.geometry_types) = 0 THEN [raised |-> "ValueError"]
    ELSE IF ~OneGeometryType(st.geometry_types) THEN [raised |-> "ValueError"]
    ELSE IF Len(st.item_list) = 0 THEN [raised |-> "ValueError"]
    ELSE [raised |-> None,
          value |-> get_cubit_string(CHOOSE g \in st.geometry_types : TRUE)
                        \o " " \o JoinIds(st.item_list)]

\* The geometry type handed on with the elements is dropped.
ExpandedGeometryType_Dropped(geometry_type) == None

\* formatter(*argument, geometry_type=geometry_type)
ExpandedGeometryType(geometry_type) == geometry_type

RECURSIVE FormatLoop(_, _, _, _)
FormatLoop(st, args, index, geometry_type) ==
    IF st.raised # None \/ index > Len(args) THEN FormatReturn(st)
    ELSE IF args[index].kind = "iterable"
    THEN IF Len(args) # 1 THEN [raised |-> "ValueError"]
         ELSE FormatLoop(FormatStart(ExpandedGeometryType(geometry_type)),
                         args[index].items, 1, ExpandedGeometryType(geometry_type))
    ELSE FormatLoop(FormatStep(st, args[index]), args, index + 1, geometry_type)

formatter(args, geometry_type) ==
    FormatLoop(FormatStart(geometry_type), args, 1, geometry_type)

\* ------------------------------------------------ add_node_sets_input_file

EmptyBuckets == [g \in GeometryType |-> <<>>]

\* The number of node sets sorted into any bucket so far.
PositionalIndex_FileOrder(buckets, geometry_type) ==
    Len(buckets[vertex]) + Len(buckets[curve]) + Len(buckets[surface])
        + Len(buckets[volume])

\* bc_description["E"] = len(node_sets[geometry_type])
PositionalIndex(buckets, geometry_type) == Len(buckets[geometry_type])

\* One pass of "for exo_id in range(len(ns_prop1))" on the state
\* [input_file, bc_description, buckets, raised]; a native id of the file
\* that the registry does not hold raises KeyError at the lookup.
ProjectStep(st, exo_id, exo_id_to_cubit_id) ==
    LET cubit_id == exo_id_to_cubit_id[exo_id]
    IN IF cubit_id \notin DOMAIN node_sets
       THEN [st EXCEPT !.raised = "KeyError"]
       ELSE
        LET bc_section == node_sets[cubit_id].bc_section
            geometry_type == node_sets[cubit_id].geometry_type
            buckets ==
                [st.buckets EXCEPT
                    ![geometry_type] = Append(@, exo.node_ns[exo_id + 1])]
            described ==
                Put(st.bc_description[cubit_id], "E",
                    PositionalIndex(buckets, geometry_type))
        IN [input_file |->
                IF bc_section = None THEN st.input_file
                ELSE AppendRecord(EnsureSection(st.input_file, bc_section),
                                  bc_section, [ref |-> cubit_id]),
            bc_description |-> [st.bc_description EXCEPT ![cubit_id] = described],
            buckets |-> buckets,
            raised |-> None]

RECURSIVE ProjectLoop(_, _, _)
ProjectLoop(st, exo_id, exo_id_to_cubit_id) ==
    IF st.raised # None \/ exo_id >= Len(exo.ns_prop1) THEN st
    ELSE ProjectLoop(ProjectStep(st, exo_id, exo_id_to_cubit_id), exo_id + 1,
                     exo_id_to_cubit_id)

name_geometry_tuple ==
    <<<<vertex, "DNODE-NODE TOPOLOGY", "DNODE">>,
      <<curve, "DLINE-NODE TOPOLOGY", "DLINE">>,
      <<surface, "DSURF-NODE TOPOLOGY", "DSURFACE">>,
      <<volume, "DVOL-NODE TOPOLOGY", "DVOL">>>>

\* The records of a node set in the order the file stores its nodes.
SetRecords_Unsorted(node_set, set_label, i_set) ==
    [n \in 1..Len(node_set) |->
        [type |-> "NODE", node_id |-> node_set[n], d_type |-> set_label,
         d_id |-> i_set + 1]]

\* node_set.sort(); for i_node in node_set: append {type, node_id, d_type, d_id}
SetRecords(node_set, set_label, i_set) ==
    [n \in 1..Len(node_set) |->
        [type |-> "NODE", node_id |-> Sorted(node_set)[n], d_type |-> set_label,
         d_id |-> i_set + 1]]

\* for i_set, node_set in enumerate(node_sets[geo]), from i_set on
RECURSIVE BucketRecords(_, _, _)
BucketRecords(bucket, set_label, i_set) ==
    IF i_set >= Len(bucket) THEN <<>>
    ELSE SetRecords(bucket[i_set + 1], set_label, i_set)
         \o BucketRecords(bucket, set_label, i_set + 1)

\* if len(node_sets[geo]) > 0: input_file[section_name] = [] and the appends
TopologyStep(deck, buckets, entry) ==
    IF Len(buckets[entry[1]]) > 0
    THEN Put(deck, entry[2], BucketRecords(buckets[entry[1]], entry[3], 0))
    ELSE deck

RECURSIVE TopologyLoop(_, _, _)
TopologyLoop(deck, buckets, k) ==
    IF k > Len(name_geometry_tuple) THEN deck
    ELSE TopologyLoop(TopologyStep(deck, buckets, name_geometry_tuple[k]), buckets, k + 1)

\* node_set.sort() sorts the array inside the bucket: once the second loop
\* has passed every bucket, each array of node_sets is ascending.
SortedBuckets(buckets) ==
    [geo \in DOMAIN buckets |->
        [i_set \in 1..Len(buckets[geo]) |-> Sorted(buckets[geo][i_set])]]

\* The function past its check for an empty registry.
ProjectAndWriteTopology(deck) ==
    LET start == [input_file |-> deck, bc_description |-> bc_description,
                  buckets |-> EmptyBuckets, raised |-> None]
        ids == _exo_to_cubit_ids(exo, "nodeset")
    IN IF ids.raised # None THEN [start EXCEPT !.raised = ids.raised]
       ELSE
        LET projected == ProjectLoop(start, 0, ids.exo_id_to_cubit_id)
        IN IF projected.raised # None THEN projected
           ELSE [projected EXCEPT
                    !.input_file =
                        TopologyLoop(projected.input_file, projected.buckets, 1),
                    !.buckets = SortedBuckets(projected.buckets)]

\* The function without its check for an empty registry.
add_node_sets_input_file_Unchecked(deck) == ProjectAndWriteTopology(deck)

add_node_sets_input_file(deck) ==
    IF Cardinality(DOMAIN node_sets) = 0
    THEN [input_file |-> deck, bc_description |-> bc_description,
          buckets |-> EmptyBuckets, raised |-> None]
    ELSE ProjectAndWriteTopology(deck)

\* ------------------------------------------------ get_input_file_with_mesh

\* coordinates: the rows (x, y, z) of the file, z = 0 without "coordz".
Coordinates ==
    [i \in 1..Len(exo.coordx) |->
        <<exo.coordx[i], exo.coordy[i],
          IF "coordz" \in DOMAIN exo THEN exo.coordz[i] ELSE 0>>]

\* The records numbered from 0.
AddNodeCoords_ZeroBased(deck) ==
    Put(deck, "NODE COORDS",
        [i \in 1..Len(Coordinates) |->
            [COORD |-> Coordinates[i], data |-> [type |-> "NODE"], id |-> i - 1]])

\* input_file["NODE COORDS"] = [] and one record per coordinate row
AddNodeCoords(deck) ==
    Put(deck, "NODE COORDS",
        [i \in 1..Len(Coordinates) |->
            [COORD |-> Coordinates[i], data |-> [type |-> "NODE"], id |-> i]])

\* {"type": ele_type.get_four_c_name(), **block_dict}: the keys of block_dict
\* next to "type", a "type" of block_dict in place of the element name.
ElementData(ele_type, block_dict) ==
    block_dict @@ ("type" :> get_four_c_name(ele_type))

\* The record of one connectivity row with a zero-based id.
ElementRecord_ZeroBased(i_element, row, ele_type, block_dict) ==
    [id |-> i_element,
     cell |-> [connectivity |-> get_element_connectivity_list(row),
               type |-> get_four_c_type(ele_type)],
     data |-> ElementData(ele_type, block_dict)]

\* The record of one connectivity row; i_element counts the rows before it.
ElementRecord(i_element, row, ele_type, block_dict) ==
    [id |-> i_element + 1,
     cell |-> [connectivity |-> get_element_connectivity_list(row),
               type |-> get_four_c_type(ele_type)],
     data |-> ElementData(ele_type, block_dict)]

\* for connectivity in exo.variables[connect<exo_id + 1>], from row r on
RECURSIVE RowLoop(_, _, _, _, _)
RowLoop(st, rows, r, block_section, block) ==
    IF r > Len(rows) THEN st
    ELSE RowLoop(
            [st EXCEPT
                !.input_file =
                    AppendRecord(st.input_file, block_section,
                        ElementRecord(st.i_element, rows[r], block.ele_type,
                                      block.block_dict)),
                !.i_element = st.i_element + 1],
            rows, r + 1, block_section, block)

\* One pass of "for exo_id in range(len(eb_prop1))" on the state
\* [input_file, i_element, raised]; a native id of the file that the
\* registry does not hold raises KeyError at the lookup.
BlockStep(st, exo_id, exo_id_to_cubit_id) ==
    LET cubit_id == exo_id_to_cubit_id[exo_id]
    IN IF cubit_id \notin DOMAIN blocks
       THEN [st EXCEPT !.raised = "KeyError"]
       ELSE
        LET block_section ==
                get_four_c_section(blocks[cubit_id].ele_type) \o " ELEMENTS"
        IN RowLoop([st EXCEPT !.input_file = EnsureSection(st.input_file, block_section)],
                   exo.connect[exo_id + 1], 1, block_section, blocks[cubit_id])

RECURSIVE BlockLoop(_, _, _)
BlockLoop(st, exo_id, exo_id_to_cubit_id) ==
    IF st.raised # None \/ exo_id >= Len(exo.eb_prop1) THEN st
    ELSE BlockLoop(BlockStep(st, exo_id, exo_id_to_cubit_id), exo_id + 1,
                   exo_id_to_cubit_id)

AddElementConnectivity(deck) ==
    LET start == [input_file |-> deck, i_element |-> 0, raised |-> None]
        ids == _exo_to_cubit_ids(exo, "block")
    IN IF ids.raised # None THEN [start EXCEPT !.raised = ids.raised]
       ELSE BlockLoop(start, 0, ids.exo_id_to_cubit_id)

\* ------------------------------------------------------------ the session

NativeIds == 1..MaxEntities

NodeSetRecords ==
    [bc_section : BCSections \cup {None}, geometry_type : GeometryType]

\* The member nodes of the node set at position k of the file, as the file
\* stores them: 5, 3 for the first and 4 for the second.
NodeArray(k) == IF k % 2 = 1 THEN <<k + 4, k + 2>> ELSE <<k + 2>>

\* An unnamed entry: a name buffer without any bytes.
NoNameBuffer == [i \in 1..NameWidth |-> Masked]

\* The connectivity row r of the block at position k of the file.
ConnectRow(k, r, n) == [i \in 1..n |-> 100 * k + 30 * (r - 1) + i]

\* The file restricted to the variables it holds.
Variables(file, names) == [v \in names |-> file[v]]

\* The exchange file export_exo writes: node sets ns (native ids in file
\* order) with member arrays, blocks eb with rows[k] elements each (an
\* element of a block the registry does not hold has 8 nodes), n nodes.
\* A bare file holds no variables for a category without entries.
ExoFile(ns, eb, rows, blk, n, hasz, bare) ==
    LET all ==
        [ns_prop1 |-> ns,
         ns_names |-> [k \in 1..Len(ns) |-> NoNameBuffer],
         node_ns |-> [k \in 1..Len(ns) |-> NodeArray(k)],
         eb_prop1 |-> eb,
         eb_names |-> [k \in 1..Len(eb) |-> NoNameBuffer],
         connect |->
            [k \in 1..Len(eb) |->
                [r \in 1..rows[k] |->
                    ConnectRow(k, r,
                        IF eb[k] \in DOMAIN blk THEN NodesPerElement(blk[eb[k]]) ELSE 8)]],
         coordx |-> [i \in 1..n |-> 10 * i],
         coordy |-> [i \in 1..n |-> 10 * i + 1],
         coordz |-> [i \in 1..n |-> 10 * i + 2]]
    IN Variables(all,
        {"coordx", "coordy"}
        \cup (IF hasz THEN {"coordz"} ELSE {})
        \cup (IF bare /\ ns = <<>> THEN {} ELSE {"ns_prop1", "ns_names", "node_ns"})
        \cup (IF bare /\ eb = <<>> THEN {} ELSE {"eb_prop1", "eb_names", "connect"}))

EmptyExo == ExoFile(<<>>, <<>>, <<>>, <<>>, 0, FALSE, FALSE)

NoDeck == [s \in {} |-> <<>>]

InitCall ==
    /\ exo_state = "unopened"
    /\ input_file = NoDeck
    /\ same_deck = FALSE
    /\ mode = "none"

InitPure ==
    /\ connectivity = <<>>
    /\ ordered = <<>>
    /\ ordered_twice = <<>>
    /\ entry_type = None
    /\ ids_result = [raised |-> None]

\* formatter is not called.
InitFormatter ==
    /\ fmt_args = <<>>
    /\ fmt_geometry_type = None
    /\ fmt_result = [raised |-> None]
    /\ fmt_elements = [raised |-> None]

\* No conversion has handed back a deck.
InitOwn ==
    /\ calls = 0
    /\ first_deck = [s \in {} |-> <<>>]
    /\ first_seen = [s \in {} |-> <<>>]

\* The variables of the functions that are not called.
InitRest ==
    /\ block_order = SetToSortedSeq(DOMAIN blocks)
    /\ rel_exo_file_path = None
    /\ InitFormatter
    /\ InitOwn

NoSession ==
    /\ node_sets = [i \in {} |-> 0]
    /\ bc_description = [i \in {} |-> 0]
    /\ blocks = [i \in {} |-> 0]
    /\ fourc_input = NoDeck

\* The inputs of a conversion vary one part of the session at a time: its
\* node sets, its blocks, its pre-mesh deck or its coordinates. The varied
\* part takes every value within the bounds, the file disagreeing with the
\* registry or not; each other part is absent or holds one entry that the
\* file and the registry agree on; next to varied node sets the session
\* holds that one block, next to varied blocks no node set.
Focuses == {"node sets", "blocks", "pre-mesh deck", "coordinates"}

\* Node sets: the registry and the native ids in file order.
NodeSetInputs(focus) ==
    IF focus = "node sets"
    THEN UNION {[reg : [S -> NodeSetRecords], file : InjectiveSeqs(NativeIds, MaxEntities)] :
                    S \in SUBSET NativeIds}
    ELSE IF focus = "blocks"
    THEN {[reg |-> <<>>, file |-> <<>>]}
    ELSE {[reg |-> <<>>, file |-> <<>>],
          [reg |-> <<[bc_section |-> "DESIGN POINT DIRICH CONDITIONS",
                      geometry_type |-> vertex]>>,
           file |-> <<1>>]}

\* Blocks: the element types of the registry, the native ids in file order
\* and the number of elements of each block of the file.
BlockInputs(focus) ==
    IF focus = "blocks"
    THEN UNION {UNION {[reg : [S -> ElementType], file : {file},
                        rows : [1..Len(file) -> 1..MaxRows]] :
                            file \in InjectiveSeqs(NativeIds, MaxEntities)} :
                    S \in SUBSET NativeIds}
    ELSE IF focus = "node sets"
    THEN {[reg |-> <<"hex8">>, file |-> <<1>>, rows |-> <<1>>]}
    ELSE {[reg |-> <<>>, file |-> <<>>, rows |-> <<>>],
          [reg |-> <<"hex8">>, file |-> <<1>>, rows |-> <<1>>]}

\* The sections the pre-mesh deck holds, one record in each.
PreMeshInputs(focus) ==
    IF focus = "pre-mesh deck"
    THEN {P \in SUBSET PreMeshSections : Cardinality(P) <= MaxEntities}
    ELSE {{}}

\* The number of nodes and whether the file holds "coordz".
CoordinateInputs(focus) ==
    IF focus = "coordinates"
    THEN [n : 1..MaxNodes, hasz : BOOLEAN]
    ELSE {[n |-> 1, hasz |-> TRUE]}

\* A meshed session: its registries, its pre-mesh deck and the file an
\* export writes.
Init ==
    /\ \E focus \in Focuses :
        \E ns \in NodeSetInputs(focus), blk \in BlockInputs(focus),
           prior \in PreMeshInputs(focus), co \in CoordinateInputs(focus),
           bare \in BOOLEAN :
            /\ node_sets = ns.reg
            /\ bc_description = [i \in DOMAIN ns.reg |-> [NUMDOF |-> 3]]
            /\ blocks =
                [i \in DOMAIN blk.reg |->
                    [ele_type |-> blk.reg[i], block_dict |-> [MAT |-> i]]]
            /\ fourc_input = [name \in prior |-> <<[prior |-> name]>>]
            /\ exo = ExoFile(ns.file, blk.file, blk.rows, blk.reg, co.n, co.hasz, bare)
    /\ InitCall
    /\ InitPure
    /\ InitRest
    /\ pc = "idle"

\* ------------------------------------------------ get_input_file_with_mesh

\* A write to the deck the call fills reaches the session's deck when both
\* are one object.
SessionDeck(written) == IF same_deck THEN written ELSE fourc_input

\* cubit.export_exo(exo_path); exo = netCDF4.Dataset(exo_path);
\* input_file = cubit.fourc_input.copy()
ExportAndOpen ==
    /\ pc = "idle"
    /\ pc' = "add_node_sets"
    /\ mode' = "embedded"
    /\ exo_state' = "open"
    /\ input_file' = CopyDeck(fourc_input).sections
    /\ same_deck' = CopyDeck(fourc_input).same_deck
    /\ UNCHANGED <<sessionVars, connVars, idsVars, restVars>>

\* add_node_sets_input_file(cubit, exo, input_file)
AddNodeSetsInputFile ==
    /\ pc = "add_node_sets"
    /\ LET done == add_node_sets_input_file(input_file)
       IN /\ input_file' = done.input_file
          /\ fourc_input' = SessionDeck(done.input_file)
          /\ bc_description' = done.bc_description
          /\ pc' = IF done.raised = None THEN "node_coords" ELSE "raised_node_sets"
    /\ UNCHANGED <<node_sets, blocks, exo, exo_state, same_deck, mode, connVars, idsVars, restVars>>

\* The nodal data.
AddNodalData ==
    /\ pc = "node_coords"
    /\ input_file' = AddNodeCoords(input_file)
    /\ fourc_input' = SessionDeck(AddNodeCoords(input_file))
    /\ pc' = "elements"
    /\ UNCHANGED <<node_sets, bc_description, blocks, exo, exo_state, same_deck, mode,
                   connVars, idsVars, restVars>>

\* The element connectivity and "return input_file". The function never
\* closes the file: after a return only the garbage collection of the
\* handle may have released it, after an error the traceback still holds it.
AddElementsAndReturn ==
    /\ pc = "elements"
    /\ LET done == AddElementConnectivity(input_file)
       IN /\ input_file' = done.input_file
          /\ fourc_input' = SessionDeck(done.input_file)
          /\ IF done.raised = None
             THEN pc' = "returned" /\ exo_state' \in {"open", "closed"}
             ELSE pc' = "raised_elements" /\ exo_state' = exo_state
    /\ UNCHANGED <<node_sets, bc_description, blocks, exo, same_deck, mode, connVars,
                   idsVars, restVars>>

\* ----------------------------------------- add_node_sets_external_geometry

\* The caller's deck for an external mesh: a copy of the pre-mesh deck.
ExternalDeck ==
    /\ pc = "idle"
    /\ pc' = "external"
    /\ mode' = "external"
    /\ input_file' = CopyDeck(fourc_input).sections
    /\ same_deck' = CopyDeck(fourc_input).same_deck
    /\ UNCHANGED <<sessionVars, exo_state, connVars, idsVars, restVars>>

AddNodeSetsExternalGeometry ==
    /\ pc = "external"
    /\ LET done == add_node_sets_external_geometry(input_file)
       IN /\ input_file' = done.input_file
          /\ fourc_input' = SessionDeck(done.input_file)
          /\ bc_description' = done.bc_description
    /\ pc' = "external_done"
    /\ UNCHANGED <<node_sets, blocks, exo, exo_state, same_deck, mode, connVars, idsVars, restVars>>

Next ==
    \/ ExportAndOpen
    \/ AddNodeSetsInputFile
    \/ AddNodalData
    \/ AddElementsAndReturn
    \/ ExternalDeck
    \/ AddNodeSetsExternalGeometry

Spec == Init /\ [][Next]_vars

\* --------------------------- get_element_connectivity_list on its own

\* Lengths of the connectivities of the element shapes, around 27.
ConnLengths == {1, 4, 8, 10, 20, 26, 27, 28}

\* Connectivities of distinct node numbers, ascending or descending.
ConnInputs ==
    {[i \in 1..n |-> off + (IF rev THEN n - i ELSE i - 1)] :
        n \in ConnLengths, off \in 0..MaxOffset, rev \in BOOLEAN}

InitConn ==
    /\ NoSession
    /\ exo = EmptyExo
    /\ InitCall
    /\ connectivity \in ConnInputs
    /\ ordered = <<>>
    /\ ordered_twice = <<>>
    /\ entry_type = None
    /\ ids_result = [raised |-> None]
    /\ InitRest
    /\ pc = "conn"

OrderOnce ==
    /\ pc = "conn"
    /\ ordered' = get_element_connectivity_list(connectivity)
    /\ pc' = "conn_once"
    /\ UNCHANGED <<sessionVars, callVars, connectivity, ordered_twice, idsVars, restVars>>

\* The function applied to the list it returned.
OrderTwice ==
    /\ pc = "conn_once"
    /\ IF TolistRaises(ordered)
       THEN /\ ordered_twice' = ordered_twice
            /\ pc' = "conn_raised"
       ELSE /\ ordered_twice' = get_element_connectivity_list(ordered)
            /\ pc' = "conn_twice"
    /\ UNCHANGED <<sessionVars, callVars, connectivity, ordered, idsVars, restVars>>

NextConn == OrderOnce \/ OrderTwice

SpecConn == InitConn /\ [][NextConn]_vars

\* ---------------------------------------------- _exo_to_cubit_ids on its own

EntryTypes == {"block", "nodeset", "sideset"}

\* The buffer rotated left by k characters.
Rotate(buffer, k) ==
    [i \in 1..Len(buffer) |-> buffer[((i - 1 + k) % Len(buffer)) + 1]]

\* A file whose entries of the asked category (the node sets for a category
\* the file does not have) are prop1, named by the rotations of buffer; the
\* other category holds one entry of its own.
IdsFile(type, prop1, buffer) ==
    LET names == [k \in 1..Len(prop1) |-> Rotate(buffer, k - 1)]
        other == <<MaxEntries + 2>>
        otherNames == <<[i \in 1..NameWidth |-> "b"]>>
    IN [ns_prop1 |-> IF type = "block" THEN other ELSE prop1,
        ns_names |-> IF type = "block" THEN otherNames ELSE names,
        eb_prop1 |-> IF type = "block" THEN prop1 ELSE other,
        eb_names |-> IF type = "block" THEN names ELSE otherNames]

InitIds ==
    /\ NoSession
    /\ InitCall
    /\ connectivity = <<>>
    /\ ordered = <<>>
    /\ ordered_twice = <<>>
    /\ entry_type \in EntryTypes
    /\ \E prop1 \in InjectiveSeqs(1..(MaxEntries + 1), MaxEntries),
          buffer \in [1..NameWidth -> NameChars] :
        exo = IdsFile(entry_type, prop1, buffer)
    /\ ids_result = [raised |-> None]
    /\ InitRest
    /\ pc = "ids"

ResolveIds ==
    /\ pc = "ids"
    /\ ids_result' = _exo_to_cubit_ids(exo, entry_type)
    /\ pc' = "ids_done"
    /\ UNCHANGED <<sessionVars, callVars, connVars, entry_type, restVars>>

NextIds == ResolveIds

SpecIds == InitIds /\ [][NextIds]_vars

\* ------------------------------------ add_exodus_geometry_section on its own

RelPaths == {"mesh.exo", "../mesh.exo"}

\* A geometry section an earlier call wrote for another file and block.
PriorGeometrySection ==
    [FILE |-> "old.exo", SHOW_INFO |-> "detailed_summary",
     ELEMENT_BLOCKS |-> <<("ID" :> 0) @@ ("SOLID" :> ("HEX8" :> [MAT |-> 0]))>>]

\* The decks handed in: sequence-valued sections of the pre-mesh deck and
\* geometry sections of an earlier call.
GeometryDecks ==
    {[name \in P |->
        IF name \in GeometrySections THEN PriorGeometrySection
        ELSE <<[prior |-> name]>>] :
            P \in SUBSET (GeometrySections \cup {"NODE COORDS"})}

\* A session with blocks, registered in any order, and the caller's deck.
InitGeo ==
    /\ node_sets = [i \in {} |-> 0]
    /\ bc_description = [i \in {} |-> 0]
    /\ \E order \in InjectiveSeqs(NativeIds, MaxEntities) :
        /\ block_order = order
        /\ \E types \in [Range(order) -> ElementType] :
            blocks = [i \in Range(order) |->
                        [ele_type |-> types[i], block_dict |-> [MAT |-> i]]]
    /\ fourc_input \in GeometryDecks
    /\ rel_exo_file_path \in RelPaths
    /\ exo = EmptyExo
    /\ InitCall
    /\ InitPure
    /\ InitFormatter
    /\ InitOwn
    /\ pc = "geometry"

\* add_exodus_geometry_section(cubit, input_file, rel_exo_file_path) on the
\* deck input_file the caller holds; fourc_input keeps what it held before.
AddExodusGeometrySection ==
    /\ pc = "geometry"
    /\ input_file' = add_exodus_geometry_section(fourc_input, rel_exo_file_path)
    /\ pc' = "geometry_done"
    /\ UNCHANGED <<sessionVars, exo_state, same_deck, mode, connVars, idsVars, restVars>>

NextGeo == AddExodusGeometrySection

SpecGeo == InitGeo /\ [][NextGeo]_vars

\* -------------------------------------------------- formatter on its own

\* The arguments that are no list or tuple: ints, objects of two geometry
\* types, sheet and solid bodies of none, one and two surfaces or volumes,
\* groups with and without items, an object of no geometry type and a value
\* of an unsupported type.
PlainArguments ==
    {[kind |-> "int", id |-> 1], [kind |-> "int", id |-> 12],
     [kind |-> "object", object_type |-> surface, id |-> 3],
     [kind |-> "object", object_type |-> volume, id |-> 4],
     [kind |-> "object", object_type |-> "body", sheet |-> TRUE, objects |-> <<5>>],
     [kind |-> "object", object_type |-> "body", sheet |-> TRUE, objects |-> <<5, 6>>],
     [kind |-> "object", object_type |-> "body", sheet |-> FALSE, objects |-> <<7>>],
     [kind |-> "object", object_type |-> "body", sheet |-> FALSE, objects |-> <<>>],
     [kind |-> "object", object_type |-> None],
     [kind |-> "group", geometry_type |-> surface, item_ids |-> <<9, 8>>],
     [kind |-> "group", geometry_type |-> volume, item_ids |-> <<>>],
     [kind |-> "other"]}

\* At most MaxArgs plain arguments.
PlainLists == UNION {[1..n -> PlainArguments] : n \in 0..MaxArgs}

Iterable(items) == [kind |-> "iterable", items |-> items]

\* The lists met among several arguments: empty, of one and two ints and
\* of a value of an unsupported type.
ListsAmongArguments ==
    {Iterable(<<>>),
     Iterable(<<[kind |-> "int", id |-> 1]>>),
     Iterable(<<[kind |-> "int", id |-> 1], [kind |-> "int", id |-> 12]>>),
     Iterable(<<[kind |-> "other"]>>)}

\* Two and more arguments, at least one of them a list, in any order: one
\* list or more, with plain arguments in front, between and behind.
MixedCalls ==
    {args \in UNION {[1..n -> PlainArguments \cup ListsAmongArguments] :
                        n \in 2..(MaxArgs + 1)} :
        \E i \in 1..Len(args) : args[i].kind = "iterable"}

\* The calls: plain arguments, the same arguments as one list, as a list
\* inside a list, a list next to one more argument on either side, and
\* lists among several arguments.
FormatterCalls ==
    PlainLists
    \cup {<<Iterable(L)>> : L \in PlainLists}
    \cup {<<Iterable(<<Iterable(L)>>)>> : L \in PlainLists}
    \cup {<<Iterable(L), a>> : L \in PlainLists, a \in PlainArguments}
    \cup {<<a, Iterable(L)>> : L \in PlainLists, a \in PlainArguments}
    \cup MixedCalls

InitFmt ==
    /\ NoSession
    /\ exo = EmptyExo
    /\ InitCall
    /\ InitPure
    /\ block_order = <<>>
    /\ rel_exo_file_path = None
    /\ fmt_args \in FormatterCalls
    /\ fmt_geometry_type \in {None, surface, volume}
    /\ fmt_result = [raised |-> None]
    /\ fmt_elements = [raised |-> None]
    /\ InitOwn
    /\ pc = "formatter"

\* formatter(*fmt_args, geometry_type=fmt_geometry_type)
Format ==
    /\ pc = "formatter"
    /\ fmt_result' = formatter(fmt_args, fmt_geometry_type)
    /\ pc' = "formatter_done"
    /\ UNCHANGED <<sessionVars, callVars, connVars, idsVars, geoVars, ownVars, fmt_args,
                   fmt_geometry_type, fmt_elements>>

\* formatter(*L, geometry_type=fmt_geometry_type) for the list L that was
\* the single argument of the call before.
FormatElements ==
    /\ pc = "formatter_done"
    /\ Len(fmt_args) = 1
    /\ fmt_args[1].kind = "iterable"
    /\ fmt_elements' = formatter(fmt_args[1].items, fmt_geometry_type)
    /\ pc' = "formatter_elements"
    /\ UNCHANGED <<sessionVars, callVars, connVars, idsVars, geoVars, ownVars, fmt_args,
                   fmt_geometry_type, fmt_result>>

NextFmt == Format \/ FormatElements

SpecFmt == InitFmt /\ [][NextFmt]_vars

\* ------------------------------------------ conversions one after another

\* The records of a deck as its holder reads them.
Resolve(deck) ==
    [name \in DOMAIN deck |-> [r \in 1..Len(deck[name]) |-> Deref(deck[name][r])]]

\* A session whose exported file holds its node sets in ascending order of
\* their native ids, with one block and one node.
InitCalls ==
    /\ \E S \in SUBSET NativeIds :
        \E reg \in [S -> NodeSetRecords] :
            /\ node_sets = reg
            /\ bc_description = [i \in S |-> [NUMDOF |-> 3]]
            /\ exo = ExoFile(SetToSortedSeq(S), <<1>>, <<1>>, <<"hex8">>, 1, TRUE, FALSE)
    /\ blocks = <<[ele_type |-> "hex8", block_dict |-> [MAT |-> 1]]>>
    /\ fourc_input = NoDeck
    /\ InitCall
    /\ InitPure
    /\ InitRest
    /\ pc = "idle"

\* The caller keeps the deck a conversion handed back and the session is
\* free for the next conversion.
HandBack ==
    /\ pc \in {"returned", "external_done"}
    /\ calls + 1 < MaxCalls
    /\ calls' = calls + 1
    /\ first_deck' = IF calls = 0 THEN input_file ELSE first_deck
    /\ first_seen' = IF calls = 0 THEN Resolve(input_file) ELSE first_seen
    /\ pc' = "idle"
    /\ mode' = "none"
    /\ input_file' = NoDeck
    /\ same_deck' = FALSE
    /\ exo_state' = "unopened"
    /\ UNCHANGED <<sessionVars, connVars, idsVars, geoVars, fmtVars>>

NextCalls ==
    \/ ExportAndOpen
    \/ AddNodeSetsInputFile
    \/ AddNodalData
    \/ AddElementsAndReturn
    \/ ExternalDeck
    \/ AddNodeSetsExternalGeometry
    \/ HandBack

SpecCalls == InitCalls /\ [][NextCalls]_vars

\* ================================================================== claims

\* Positions of the running call at which add_node_sets_input_file has
\* returned without an error.
NodeSetsWritten ==
    mode = "embedded" /\ pc \in {"node_coords", "elements", "returned", "raised_elements"}

\* The 1-based position of the node set at position k of the file among the
\* node sets of its dimensionality, in file order.
BucketPosition(k) ==
    Cardinality({j \in 1..k :
        node_sets[exo.ns_prop1[j]].geometry_type
            = node_sets[exo.ns_prop1[k]].geometry_type})

\* The positions of a section at which the record is the BC record of the
\* node set id.
RecordsOf(deck, name, id) ==
    {r \in 1..Len(deck[name]) : deck[name][r] = [ref |-> id]}

\* The position in the file of the node set a BC record refers to.
ExchangePosition(rec) == CHOOSE k \in 1..Len(exo.ns_prop1) : exo.ns_prop1[k] = rec.ref

\* C1: after add_node_sets_input_file on a session with node sets, the k-th
\* node set of a dimensionality in file order has E = k in its BC
\* description, with or without a BC section; a set with a BC section has
\* exactly one BC record, in its named section and in no other, a set
\* without one has none, and the BC records of a section follow the file
\* order of their node sets.
C1_PositionalIndexPerBucket ==
    (NodeSetsWritten /\ DOMAIN node_sets # {}) =>
        /\ \A k \in 1..Len(exo.ns_prop1) :
            LET id == exo.ns_prop1[k]
            IN /\ "E" \in DOMAIN bc_description[id]
               /\ bc_description[id].E = BucketPosition(k)
               /\ \A name \in DOMAIN input_file :
                    Cardinality(RecordsOf(input_file, name, id))
                        = IF name = node_sets[id].bc_section THEN 1 ELSE 0
               /\ node_sets[id].bc_section # None =>
                    /\ node_sets[id].bc_section \in DOMAIN input_file
                    /\ \A r \in RecordsOf(input_file, node_sets[id].bc_section, id) :
                        Deref(input_file[node_sets[id].bc_section][r]).E = BucketPosition(k)
        /\ \A name \in DOMAIN input_file :
            \A r1, r2 \in 1..Len(input_file[name]) :
                (/\ r1 < r2
                 /\ "ref" \in DOMAIN input_file[name][r1]
                 /\ "ref" \in DOMAIN input_file[name][r2]) =>
                    ExchangePosition(input_file[name][r1])
                        < ExchangePosition(input_file[name][r2])

\* Two node sets of one dimensionality, stored in the file against the order
\* of their native ids, the first without and the second with a BC section:
\* the second has E = 2.
C1_Witness ==
    /\ mode = "embedded" /\ pc = "node_coords"
    /\ DOMAIN node_sets = {1, 2}
    /\ "ns_prop1" \in DOMAIN exo
    /\ exo.ns_prop1 = <<2, 1>>
    /\ node_sets[2].geometry_type = node_sets[1].geometry_type
    /\ node_sets[2].bc_section = None
    /\ node_sets[1].bc_section # None
    /\ bc_description[1].E = 2
    /\ Len(input_file[node_sets[1].bc_section]) = 1

\* The file positions of the node sets of dimensionality g.
Members(g) ==
    {k \in 1..Len(exo.ns_prop1) : node_sets[exo.ns_prop1[k]].geometry_type = g}

\* The topology section and the set label of each dimensionality.
TopologyTable ==
    {<<vertex, "DNODE-NODE TOPOLOGY", "DNODE">>,
     <<curve, "DLINE-NODE TOPOLOGY", "DLINE">>,
     <<surface, "DSURF-NODE TOPOLOGY", "DSURFACE">>,
     <<volume, "DVOL-NODE TOPOLOGY", "DVOL">>}

\* C3: after add_node_sets_input_file on a session with node sets, the
\* topology section of a dimensionality with node sets holds, for every node
\* set of it, one record per member node; every record has type NODE, the
\* set label of the section and as d_id the position of its set in the
\* bucket, which is the E of that set; the records are grouped by set in
\* bucket order and ascend by node inside a set.
C3_TopologyRecordOrder ==
    (NodeSetsWritten /\ DOMAIN node_sets # {}) =>
        \A t \in TopologyTable :
            Members(t[1]) # {} =>
                /\ t[2] \in DOMAIN input_file
                /\ LET sec == input_file[t[2]]
                   IN /\ \A r \in 1..Len(sec) :
                            /\ sec[r].type = "NODE"
                            /\ sec[r].d_type = t[3]
                            /\ sec[r].d_id \in 1..Cardinality(Members(t[1]))
                      /\ \A r1, r2 \in 1..Len(sec) :
                            r1 < r2 =>
                                \/ sec[r1].d_id < sec[r2].d_id
                                \/ /\ sec[r1].d_id = sec[r2].d_id
                                   /\ sec[r1].node_id < sec[r2].node_id
                      /\ \A k \in Members(t[1]) :
                            LET rs == {r \in 1..Len(sec) : sec[r].d_id = BucketPosition(k)}
                            IN /\ Cardinality(rs) = Len(exo.node_ns[k])
                               /\ {sec[r].node_id : r \in rs} = Range(exo.node_ns[k])
                               /\ bc_description[exo.ns_prop1[k]].E = BucketPosition(k)

\* The sets S1 = {5, 3} and S2 = {4} of one dimensionality, in this order in
\* the file: the nodes of the section are 3, 5, 4 with d_id 1, 1, 2.
C3_Witness ==
    /\ mode = "embedded" /\ pc = "node_coords"
    /\ DOMAIN node_sets = {1, 2}
    /\ "node_ns" \in DOMAIN exo
    /\ exo.node_ns = <<<<5, 3>>, <<4>>>>
    /\ node_sets[exo.ns_prop1[1]].geometry_type = curve
    /\ node_sets[exo.ns_prop1[2]].geometry_type = curve
    /\ "DLINE-NODE TOPOLOGY" \in DOMAIN input_file
    /\ [r \in 1..Len(input_file["DLINE-NODE TOPOLOGY"]) |->
            <<input_file["DLINE-NODE TOPOLOGY"][r].node_id,
              input_file["DLINE-NODE TOPOLOGY"][r].d_id>>]
        = <<<<3, 1>>, <<5, 1>>, <<4, 2>>>>

\* The number of connectivity rows of the blocks before position k of the
\* file.
RECURSIVE RowsBefore(_)
RowsBefore(k) == IF k <= 1 THEN 0 ELSE RowsBefore(k - 1) + Len(exo.connect[k - 1])

\* The element records of the deck as pairs of section and position.
ElementPlaces(deck) ==
    UNION {{<<name, p>> : p \in {q \in 1..Len(deck[name]) : "cell" \in DOMAIN deck[name][q]}} :
            name \in DOMAIN deck}

ElementSectionOf(id) ==
    IF blocks[id].ele_type = "hex8_fluid" THEN "FLUID ELEMENTS" ELSE "STRUCTURE ELEMENTS"

\* C2: in the deck get_input_file_with_mesh returns, row r of the block at
\* position k of the file is the element with id (rows of the blocks before
\* k) + r, in the section of its block; the deck holds as many element
\* records as the file has rows, no two with the same id, and the ids of a
\* section ascend.
C2_ElementIdsSequential ==
    (mode = "embedded" /\ pc = "returned") =>
        /\ \A k \in 1..Len(exo.eb_prop1) :
            \A r \in 1..Len(exo.connect[k]) :
                LET name == ElementSectionOf(exo.eb_prop1[k])
                IN /\ name \in DOMAIN input_file
                   /\ \E p \in 1..Len(input_file[name]) :
                        /\ "cell" \in DOMAIN input_file[name][p]
                        /\ input_file[name][p].id = RowsBefore(k) + r
                        /\ DOMAIN input_file[name][p].data
                            = DOMAIN blocks[exo.eb_prop1[k]].block_dict \cup {"type"}
                        /\ \A key \in DOMAIN blocks[exo.eb_prop1[k]].block_dict :
                            input_file[name][p].data[key]
                                = blocks[exo.eb_prop1[k]].block_dict[key]
                        /\ Range(input_file[name][p].cell.connectivity)
                            = Range(exo.connect[k][r])
        /\ Cardinality(ElementPlaces(input_file)) = RowsBefore(Len(exo.eb_prop1) + 1)
        /\ \A a, b \in ElementPlaces(input_file) :
            /\ input_file[a[1]][a[2]].id \in 1..RowsBefore(Len(exo.eb_prop1) + 1)
            /\ a # b => input_file[a[1]][a[2]].id # input_file[b[1]][b[2]].id
            /\ (a[1] = b[1] /\ a[2] < b[2]) =>
                    input_file[a[1]][a[2]].id < input_file[b[1]][b[2]].id

\* Two blocks of 3 and of 2 elements in one section: ids 1, 2, 3 and 4, 5.
C2_Witness ==
    /\ mode = "embedded" /\ pc = "returned"
    /\ Len(exo.eb_prop1) = 2
    /\ Len(exo.connect[1]) = 3 /\ Len(exo.connect[2]) = 2
    /\ blocks[exo.eb_prop1[1]].ele_type = "hex8"
    /\ blocks[exo.eb_prop1[2]].ele_type = "hex27"
    /\ Len(input_file["STRUCTURE ELEMENTS"]) = 5
    /\ [p \in 1..5 |-> input_file["STRUCTURE ELEMENTS"][p].id] = <<1, 2, 3, 4, 5>>
    /\ [p \in 1..5 |-> input_file["STRUCTURE ELEMENTS"][p].data.MAT]
        = <<exo.eb_prop1[1], exo.eb_prop1[1], exo.eb_prop1[1], exo.eb_prop1[2],
            exo.eb_prop1[2]>>
    /\ input_file["STRUCTURE ELEMENTS"][4].data = [type |-> "SOLID", MAT |-> exo.eb_prop1[2]]

\* C4: get_element_connectivity_list keeps the first 20 entries of a
\* 27-entry connectivity in place and fills the positions 20..26 (from 0)
\* with the entries 21, 25, 24, 26, 23, 22, 20; the result holds every entry
\* of the input as often as the input does; applied to its own result it
\* does not give the input back; a connectivity of another length comes
\* back as it went in, entry by entry.
C4_Hex27Permutation ==
    /\ pc \in {"conn_once", "conn_twice", "conn_raised"} =>
        IF Len(connectivity) = 27
        THEN /\ Len(ordered) = 27
             /\ \A i \in 1..20 : ordered[i] = connectivity[i]
             /\ <<ordered[21], ordered[22], ordered[23], ordered[24], ordered[25],
                  ordered[26], ordered[27]>>
                = <<connectivity[22], connectivity[26], connectivity[25],
                    connectivity[27], connectivity[24], connectivity[23],
                    connectivity[21]>>
             /\ \A v \in Range(connectivity) \cup Range(ordered) :
                    Cardinality({i \in 1..27 : ordered[i] = v})
                        = Cardinality({i \in 1..27 : connectivity[i] = v})
        ELSE ordered = connectivity
    /\ pc = "conn_twice" =>
        /\ Len(connectivity) = 27
        /\ ordered_twice # connectivity

\* The connectivity 0..26: its ordering is 0..19, 21, 25, 24, 26, 23, 22, 20.
C4_Witness ==
    /\ pc = "conn_twice"
    /\ connectivity = [i \in 1..27 |-> i - 1]
    /\ ordered =
        <<0, 1, 2, 3, 4, 5, 6, 7, 8, 9, 10, 11, 12, 13, 14, 15, 16, 17, 18, 19,
          21, 25, 24, 26, 23, 22, 20>>
    /\ ordered_twice # connectivity

\* C9: for the categories block and nodeset _exo_to_cubit_ids returns one
\* descriptor per entry of the file, in file order, with exo_id the
\* zero-based position, and two maps with one key per entry that are
\* inverse to each other; another category raises ValueError and nothing
\* else is returned.
C9_IdMapsInverse ==
    pc = "ids_done" =>
        IF entry_type \in {"block", "nodeset"}
        THEN LET prop1 == IF entry_type = "block" THEN exo.eb_prop1 ELSE exo.ns_prop1
                 n == Len(prop1)
             IN /\ ids_result.raised = None
                /\ Len(ids_result.entries_info) = n
                /\ \A k \in 1..n :
                    /\ ids_result.entries_info[k].exo_id = k - 1
                    /\ ids_result.entries_info[k].cubit_id = prop1[k]
                /\ DOMAIN ids_result.exo_id_to_cubit_id = 0..(n - 1)
                /\ Cardinality(DOMAIN ids_result.cubit_id_to_exo_id) = n
                /\ \A i \in 0..(n - 1) :
                    /\ ids_result.exo_id_to_cubit_id[i] = prop1[i + 1]
                    /\ ids_result.exo_id_to_cubit_id[i]
                        \in DOMAIN ids_result.cubit_id_to_exo_id
                    /\ ids_result.cubit_id_to_exo_id[ids_result.exo_id_to_cubit_id[i]] = i
                /\ \A c \in DOMAIN ids_result.cubit_id_to_exo_id :
                    /\ ids_result.cubit_id_to_exo_id[c] \in 0..(n - 1)
                    /\ ids_result.exo_id_to_cubit_id[ids_result.cubit_id_to_exo_id[c]] = c
        ELSE ids_result = [raised |-> "ValueError"]

\* Two node sets stored against the order of their native ids.
C9_Witness ==
    /\ pc = "ids_done"
    /\ entry_type = "nodeset"
    /\ exo.ns_prop1 = <<3, 1>>
    /\ ids_result.cubit_id_to_exo_id[3] = 0
    /\ ids_result.cubit_id_to_exo_id[1] = 1
    /\ ids_result.exo_id_to_cubit_id[0] = 3

\* C5: with an empty node-set registry add_node_sets_input_file raises no
\* error, whatever node-set variables the file holds or lacks, and the deck
\* of the call holds a topology or BC section only if the pre-mesh deck
\* holds it, with the records it has there; add_node_sets_external_geometry
\* leaves its deck as it was.
C5_NoNodeSetsNoSections ==
    DOMAIN node_sets = {} =>
        /\ pc # "raised_node_sets"
        /\ (mode = "embedded"
            /\ pc \in {"node_coords", "elements", "returned", "raised_elements"}) =>
                \A name \in TopologySections \cup BCSections :
                    IF name \in DOMAIN fourc_input
                    THEN name \in DOMAIN input_file /\ input_file[name] = fourc_input[name]
                    ELSE name \notin DOMAIN input_file
        /\ (mode = "external" /\ pc = "external_done") => input_file = fourc_input

\* A session without node sets whose file holds no node-set variable at all
\* and one block: the call returns.
C5_Witness ==
    /\ DOMAIN node_sets = {}
    /\ mode = "embedded" /\ pc = "returned"
    /\ "ns_prop1" \notin DOMAIN exo
    /\ "ns_names" \notin DOMAIN exo
    /\ Len(exo.eb_prop1) = 1
    /\ "NODE COORDS" \in DOMAIN input_file

\* The keys of a BC description other than the two the conversion writes.
OwnKeys(description) == DOMAIN description \ {"E", "ENTITY_TYPE"}

\* C6: no step of get_input_file_with_mesh, to its return or to its error,
\* changes the pre-mesh deck, the block registry or the node-set registry,
\* and of a BC description it changes at most the keys E and ENTITY_TYPE.
C6_SessionUnchanged ==
    [][mode' = "embedded" =>
        /\ fourc_input' = fourc_input
        /\ blocks' = blocks
        /\ node_sets' = node_sets
        /\ DOMAIN bc_description' = DOMAIN bc_description
        /\ \A id \in DOMAIN bc_description :
            /\ OwnKeys(bc_description'[id]) = OwnKeys(bc_description[id])
            /\ \A key \in OwnKeys(bc_description[id]) :
                bc_description'[id][key] = bc_description[id][key]]_vars

\* A call that failed at a block after it wrote the E of a node set and the
\* nodes into its deck, on a session whose pre-mesh deck holds a section.
C6_Witness ==
    /\ mode = "embedded" /\ pc = "raised_elements"
    /\ \E id \in DOMAIN bc_description : "E" \in DOMAIN bc_description[id]
    /\ DOMAIN fourc_input # {}
    /\ "NODE COORDS" \in DOMAIN input_file
    /\ input_file # fourc_input

\* C7: when get_input_file_with_mesh has handed control back, by its return
\* or by an error, the exchange file it opened is closed.
C7_FileClosedOnExit ==
    pc \in {"returned", "raised_node_sets", "raised_elements"} => exo_state = "closed"

\* The native ids of a category in the file.
FileIds(variable) == IF variable \in DOMAIN exo THEN Range(exo[variable]) ELSE {}

\* C8: a call of get_input_file_with_mesh whose file holds other node-set
\* ids than the node-set registry, or other block ids than the block
\* registry, does not return a deck.
C8_MismatchFails ==
    (/\ mode = "embedded"
     /\ \/ FileIds("ns_prop1") # DOMAIN node_sets
        \/ FileIds("eb_prop1") # DOMAIN blocks) =>
            pc # "returned"

\* C10: add_node_sets_external_geometry leaves the records a section had in
\* place and appends to the section a node set names the BC description of
\* that set, once, with E the native id and ENTITY_TYPE "node_set_id", the
\* appended records ascending by native id; it creates the section when the
\* deck lacks it and creates no other section.
C10_ExternalRecords ==
    (mode = "external" /\ pc = "external_done") =>
        \A name \in DOMAIN input_file \cup DOMAIN fourc_input \cup BCSections :
            LET prior == IF name \in DOMAIN fourc_input THEN fourc_input[name] ELSE <<>>
                ids == {id \in DOMAIN node_sets : node_sets[id].bc_section = name}
            IN IF name \notin DOMAIN fourc_input /\ ids = {}
               THEN name \notin DOMAIN input_file
               ELSE /\ name \in DOMAIN input_file
                    /\ Len(input_file[name]) = Len(prior) + Cardinality(ids)
                    /\ \A r \in 1..Len(prior) : input_file[name][r] = prior[r]
                    /\ \A r \in (Len(prior) + 1)..Len(input_file[name]) :
                        LET rec == input_file[name][r]
                        IN /\ "ref" \in DOMAIN rec
                           /\ rec.ref \in ids
                           /\ DOMAIN Deref(rec)
                                = OwnKeys(Deref(rec)) \cup {"E", "ENTITY_TYPE"}
                           /\ Deref(rec).E = rec.ref
                           /\ Deref(rec).ENTITY_TYPE = "node_set_id"
                           /\ r < Len(input_file[name]) =>
                                /\ "ref" \in DOMAIN input_file[name][r + 1]
                                /\ rec.ref < input_file[name][r + 1].ref

\* Two node sets naming one section, stored in the file against the order of
\* their native ids: the records are those of the sets 1 and 2, in this
\* order.
C10_Witness ==
    /\ mode = "external" /\ pc = "external_done"
    /\ DOMAIN node_sets = {1, 2}
    /\ node_sets[1].bc_section = "DESIGN LINE DIRICH CONDITIONS"
    /\ node_sets[2].bc_section = "DESIGN LINE DIRICH CONDITIONS"
    /\ "ns_prop1" \in DOMAIN exo
    /\ exo.ns_prop1 = <<2, 1>>
    /\ input_file["DESIGN LINE DIRICH CONDITIONS"] = <<[ref |-> 1], [ref |-> 2]>>
    /\ bc_description[2] = [NUMDOF |-> 3, E |-> 2, ENTITY_TYPE |-> "node_set_id"]

\* The blocks of a geometry section, in the order of cubit.blocks.items().
BlocksOfSection(key) ==
    SelectSeq(block_order,
              LAMBDA id : get_four_c_section(blocks[id].ele_type) \o " GEOMETRY" = key)

\* C11: on a deck without geometry sections add_exodus_geometry_section
\* creates the geometry section of an element type exactly when a block has
\* that type, with FILE the given path and SHOW_INFO "detailed_summary", and
\* its ELEMENT_BLOCKS hold one descriptor {ID, four-c name: {cubit name:
\* block metadata}} per block of the section, in the iteration order of the
\* registry; the other sections of the deck stay as they were.
C11_GeometrySections ==
    (pc = "geometry_done" /\ DOMAIN fourc_input \cap GeometrySections = {}) =>
        /\ DOMAIN input_file \ GeometrySections = DOMAIN fourc_input
        /\ \A name \in DOMAIN fourc_input : input_file[name] = fourc_input[name]
        /\ \A key \in GeometrySections :
            LET ids == BlocksOfSection(key)
            IN IF ids = <<>> THEN key \notin DOMAIN input_file
               ELSE /\ key \in DOMAIN input_file
                    /\ DOMAIN input_file[key] = {"FILE", "SHOW_INFO", "ELEMENT_BLOCKS"}
                    /\ input_file[key].FILE = rel_exo_file_path
                    /\ input_file[key].SHOW_INFO = "detailed_summary"
                    /\ Len(input_file[key].ELEMENT_BLOCKS) = Len(ids)
                    /\ \A r \in 1..Len(ids) :
                        LET descriptor == input_file[key].ELEMENT_BLOCKS[r]
                            ele_type == blocks[ids[r]].ele_type
                        IN /\ DOMAIN descriptor = {"ID", get_four_c_name(ele_type)}
                           /\ descriptor.ID = ids[r]
                           /\ DOMAIN descriptor[get_four_c_name(ele_type)]
                                = {get_cubit_names(ele_type)[2]}
                           /\ descriptor[get_four_c_name(ele_type)]
                                        [get_cubit_names(ele_type)[2]]
                                = blocks[ids[r]].block_dict

\* Block 2 (hex27) registered before block 1 (hex8): one STRUCTURE GEOMETRY
\* section holding the descriptors of 2 and 1, in this order.
C11_Witness ==
    /\ pc = "geometry_done"
    /\ fourc_input = <<>>
    /\ block_order = <<2, 1>>
    /\ blocks[2].ele_type = "hex27" /\ blocks[1].ele_type = "hex8"
    /\ rel_exo_file_path = "../mesh.exo"
    /\ DOMAIN input_file = {"STRUCTURE GEOMETRY"}
    /\ input_file["STRUCTURE GEOMETRY"].FILE = "../mesh.exo"
    /\ Len(input_file["STRUCTURE GEOMETRY"].ELEMENT_BLOCKS) = 2
    /\ input_file["STRUCTURE GEOMETRY"].ELEMENT_BLOCKS[1].ID = 2
    /\ input_file["STRUCTURE GEOMETRY"].ELEMENT_BLOCKS[1].SOLID.HEX27 = [MAT |-> 2]
    /\ input_file["STRUCTURE GEOMETRY"].ELEMENT_BLOCKS[2].ID = 1

\* The arguments of a call with every list replaced by its elements.
RECURSIVE Leaves(_)
Leaves(args) ==
    IF args = <<>> THEN <<>>
    ELSE (IF Head(args).kind = "iterable" THEN Leaves(Head(args).items)
          ELSE <<Head(args)>>) \o Leaves(Tail(args))

\* The geometry types an argument contributes.
TypesOf(argument) ==
    IF argument.kind = "group" THEN {argument.geometry_type}
    ELSE IF argument.kind = "object" /\ argument.object_type = "body"
    THEN {IF argument.sheet THEN surface ELSE volume}
    ELSE IF argument.kind = "object" /\ argument.object_type \in GeometryType
    THEN {argument.object_type}
    ELSE {}

\* The item ids an argument contributes.
ItemsOf(argument) ==
    IF argument.kind = "group" THEN argument.item_ids
    ELSE IF argument.kind = "object" /\ argument.object_type = "body"
    THEN argument.objects
    ELSE IF argument.kind \in {"int", "object"} /\ "id" \in DOMAIN argument
    THEN <<argument.id>>
    ELSE <<>>

\* The geometry types of a call: the explicit one and those of its arguments.
CallTypes ==
    (IF fmt_geometry_type # None THEN {fmt_geometry_type} ELSE {})
    \cup UNION {TypesOf(Leaves(fmt_args)[i]) : i \in 1..Len(Leaves(fmt_args))}

RECURSIVE Concat(_)
Concat(seqs) == IF seqs = <<>> THEN <<>> ELSE Head(seqs) \o Concat(Tail(seqs))

\* The item ids of a call, in the order of its arguments.
CallItems == Concat([i \in 1..Len(Leaves(fmt_args)) |-> ItemsOf(Leaves(fmt_args)[i])])

\* An int, an object with a geometry type, a body or a group.
Supported(argument) ==
    \/ argument.kind \in {"int", "group"}
    \/ argument.kind = "object" /\ argument.object_type \in GeometryType \cup {"body"}

Returned(result) == result.raised = None /\ "value" \in DOMAIN result

\* C12 as stated: formatter returns a string only for exactly one geometry
\* type and a list of item ids that is not empty, and a call with two
\* geometry types, with none or with no item id raises ValueError.
C12_AsStated ==
    pc \in {"formatter_done", "formatter_elements"} =>
        /\ Returned(fmt_result) =>
            Cardinality(CallTypes) = 1 /\ CallItems # <<>>
        /\ (Cardinality(CallTypes) # 1 \/ CallItems = <<>>) =>
            fmt_result = [raised |-> "ValueError"]

\* C12, amended: formatter returns a string only for exactly one geometry
\* type and a list of item ids that is not empty; a call with two geometry
\* types, with none or with no item id returns no string and raises
\* ValueError or TypeError, TypeError only if one of its arguments is
\* neither an int, an object with a geometry type, a body nor a group.
C12_OneTypeAndItems ==
    pc \in {"formatter_done", "formatter_elements"} =>
        /\ Returned(fmt_result) =>
            Cardinality(CallTypes) = 1 /\ CallItems # <<>>
        /\ (Cardinality(CallTypes) # 1 \/ CallItems = <<>>) =>
            /\ fmt_result \in {[raised |-> "ValueError"], [raised |-> "TypeError"]}
            /\ (\A i \in 1..Len(Leaves(fmt_args)) : Supported(Leaves(fmt_args)[i]))
                    => fmt_result = [raised |-> "ValueError"]

\* A surface object passed with geometry_type = volume: ValueError.
C12_Witness ==
    /\ pc = "formatter_done"
    /\ fmt_args = <<[kind |-> "object", object_type |-> surface, id |-> 3]>>
    /\ fmt_geometry_type = volume
    /\ fmt_result = [raised |-> "ValueError"]

\* The positions of the lists among the arguments of the call.
IterablePositions == {i \in 1..Len(fmt_args) : fmt_args[i].kind = "iterable"}

\* C13 as stated: a call with a single list has the outcome of the call
\* with the elements of the list, and a list passed next to another
\* argument raises ValueError.
C13_AsStated ==
    /\ pc = "formatter_elements" => fmt_elements = fmt_result
    /\ (pc \in {"formatter_done", "formatter_elements"}
        /\ Len(fmt_args) > 1 /\ IterablePositions # {}) =>
            fmt_result = [raised |-> "ValueError"]

\* A value that is neither an int, an object with a geometry type, a body,
\* a group nor a list.
Unsupported(argument) == argument.kind # "iterable" /\ ~Supported(argument)

\* A body that has not exactly one surface (sheet body) or one volume.
UnresolvedBody(argument) ==
    /\ argument.kind = "object"
    /\ argument.object_type = "body"
    /\ Len(argument.objects) # 1

\* The positions of the arguments that end a call of several arguments: a
\* list, a body that has not exactly one surface or volume, a value of an
\* unsupported type.
EndingPositions ==
    {i \in 1..Len(fmt_args) :
        \/ fmt_args[i].kind = "iterable"
        \/ UnresolvedBody(fmt_args[i])
        \/ Unsupported(fmt_args[i])}

\* C13, amended: a call with a single list has the outcome of the call with
\* the elements of the list, the same string or the same error, also for an
\* empty list and for a list that holds one list; a call of several
\* arguments with a list among them returns no string, and the first of its
\* arguments that is a list, a body that has not exactly one surface or
\* volume, or a value of an unsupported type decides the error: TypeError
\* if that argument is of an unsupported type, ValueError if it is a list
\* or such a body.
C13_IterableExpands ==
    /\ pc = "formatter_elements" => fmt_elements = fmt_result
    /\ (pc \in {"formatter_done", "formatter_elements"}
        /\ Len(fmt_args) > 1 /\ IterablePositions # {}) =>
            LET first == CHOOSE i \in EndingPositions :
                            \A j \in EndingPositions : i <= j
            IN fmt_result =
                [raised |-> IF Unsupported(fmt_args[first])
                            THEN "TypeError" ELSE "ValueError"]

\* The list [1, 12] with geometry_type = surface gives "surface 1 12", as
\* the call with the arguments 1 and 12 does.
C13_Witness ==
    /\ pc = "formatter_elements"
    /\ fmt_args = <<Iterable(<<[kind |-> "int", id |-> 1], [kind |-> "int", id |-> 12]>>)>>
    /\ fmt_geometry_type = surface
    /\ fmt_result = [raised |-> None, value |-> "surface 1 12"]
    /\ fmt_elements = fmt_result

\* C17: for arguments that are ints, objects with a geometry type, bodies
\* and groups, formatter fails with ValueError if a body has not exactly
\* one surface (sheet body) or one volume; when it returns, the string is
\* the cubit string of the one geometry type, once, followed by the item
\* ids in the order of the arguments, a group giving its item ids in a row
\* at its place and a body the id of its surface or volume.
C17_ItemOrder ==
    (/\ pc \in {"formatter_done", "formatter_elements"}
     /\ IterablePositions = {}
     /\ \A i \in 1..Len(fmt_args) : Supported(fmt_args[i])) =>
        /\ (\E i \in 1..Len(fmt_args) :
                /\ fmt_args[i].kind = "object"
                /\ fmt_args[i].object_type = "body"
                /\ Len(fmt_args[i].objects) # 1)
            => fmt_result = [raised |-> "ValueError"]
        /\ Returned(fmt_result) =>
            /\ Cardinality(CallTypes) = 1
            /\ CallItems # <<>>
            /\ \A g \in CallTypes :
                fmt_result.value = get_cubit_string(g) \o " " \o JoinIds(CallItems)

\* The sheet body of surface 5 in front of the group of the surfaces 9 and
\* 8: "surface 5 9 8".
C17_Witness ==
    /\ pc = "formatter_done"
    /\ fmt_args =
        <<[kind |-> "object", object_type |-> "body", sheet |-> TRUE, objects |-> <<5>>],
          [kind |-> "group", geometry_type |-> surface, item_ids |-> <<9, 8>>]>>
    /\ fmt_result = [raised |-> None, value |-> "surface 5 9 8"]

\* s is the beginning of t.
IsPrefix(s, t) == Len(s) <= Len(t) /\ \A r \in 1..Len(s) : t[r] = s[r]

\* C14: a section the pre-mesh deck holds keeps, in the deck a conversion
\* fills, the records it had as its first records, whichever step wrote to
\* it.
C14_PriorRecordsKept ==
    mode \in {"embedded", "external"} =>
        \A name \in DOMAIN fourc_input :
            /\ name \in DOMAIN input_file
            /\ IsPrefix(fourc_input[name], input_file[name])

\* The z column of the file.
CoordZ == IF "coordz" \in DOMAIN exo THEN exo.coordz ELSE [i \in 1..Len(exo.coordx) |-> 0]

\* C15: once the nodal data is written, NODE COORDS holds one record per
\* entry of coordx, in file order, the i-th with id i, type NODE and the
\* coordinates x_i, y_i and z_i, z_i being 0 for a file without coordz.
C15_NodeCoords ==
    (mode = "embedded" /\ pc \in {"elements", "returned", "raised_elements"}) =>
        /\ "NODE COORDS" \in DOMAIN input_file
        /\ Len(input_file["NODE COORDS"]) = Len(exo.coordx)
        /\ \A i \in 1..Len(exo.coordx) :
            /\ input_file["NODE COORDS"][i].id = i
            /\ input_file["NODE COORDS"][i].data = [type |-> "NODE"]
            /\ input_file["NODE COORDS"][i].COORD
                = <<exo.coordx[i], exo.coordy[i], CoordZ[i]>>

\* A planar mesh of two nodes: the returned deck holds the records 1 and 2
\* with third coordinate 0.
C15_Witness ==
    /\ mode = "embedded" /\ pc = "returned"
    /\ "coordz" \notin DOMAIN exo
    /\ Len(exo.coordx) = 2
    /\ Len(input_file["NODE COORDS"]) = 2
    /\ input_file["NODE COORDS"][2].id = 2
    /\ input_file["NODE COORDS"][2].COORD = <<20, 21, 0>>

\* The name buffers of the category that was asked for.
AskedNames == IF entry_type = "block" THEN exo.eb_names ELSE exo.ns_names

\* The characters of a buffer in front of its trailing padding.
RECURSIVE VisibleName(_, _)
VisibleName(line, padding) ==
    IF line = <<>> THEN <<>>
    ELSE IF line[Len(line)] \in padding
    THEN VisibleName(SubSeq(line, 1, Len(line) - 1), padding)
    ELSE line

\* The name behind a buffer of visible characters followed by padding:
\* None for a buffer of padding only.
PaddedName(line, padding) ==
    IF VisibleName(line, padding) = <<>> THEN <<None>> ELSE VisibleName(line, padding)

\* A visible name in front of padding only.
IsPadded(line, padding) ==
    \A i \in 1..Len(VisibleName(line, padding)) : line[i] \notin padding

\* C16 as stated, blanks being padding like masked elements and empty
\* bytes: the name of an entry whose buffer holds a visible name followed
\* by padding is that visible name, the name of an entry whose buffer
\* holds padding only is None, and no name is empty or holds blanks only.
C16_AsStated ==
    (pc = "ids_done" /\ ids_result.raised = None) =>
        \A k \in 1..Len(AskedNames) :
            LET line == AskedNames[k]
                name == ids_result.entries_info[k].name
            IN /\ IsPadded(line, {Masked, "", " "})
                    => name = PaddedName(line, {Masked, "", " "})
               /\ name # <<>>
               /\ \E i \in 1..Len(name) : name[i] # " "

\* The buffer of a name: its characters and masked elements behind them.
EncodeName(name) ==
    [i \in 1..NameWidth |-> IF i <= Len(name) THEN name[i] ELSE Masked]

\* C16, amended: padding is a masked element or an empty byte string. The
\* name of an entry whose buffer holds a visible name followed by padding
\* is that visible name, and decoding the name written back with padding
\* gives it again; the name of an entry whose buffer holds padding only is
\* None and no name is empty. A blank is a character of the name like any
\* other.
C16_NamesDecoded ==
    (pc = "ids_done" /\ ids_result.raised = None) =>
        \A k \in 1..Len(AskedNames) :
            LET line == AskedNames[k]
                name == ids_result.entries_info[k].name
            IN /\ IsPadded(line, {Masked, ""}) => name = PaddedName(line, {Masked, ""})
               /\ name # <<>>
               /\ name # <<None>> => NameOrNone(EncodeName(name)) = name
               /\ (\A i \in 1..Len(line) : line[i] = " ") => name = line

\* The buffer "ab" with one masked element behind it decodes to "ab".
C16_Witness ==
    /\ pc = "ids_done"
    /\ entry_type = "nodeset"
    /\ Len(exo.ns_names) >= 1
    /\ exo.ns_names[1] = <<"a", "b", Masked>>
    /\ ids_result.entries_info[1].name = <<"a", "b">>

\* C18: the deck the first conversion handed back reads as it did then,
\* whatever conversions the session ran later, and no BC record of a deck
\* add_node_sets_input_file has filled holds the key ENTITY_TYPE.
C18_HandedBackDeckKept ==
    /\ calls >= 1 => Resolve(first_deck) = first_seen
    /\ (mode = "embedded"
        /\ pc \in {"node_coords", "elements", "returned", "raised_elements"}) =>
            \A name \in BCSections :
                name \in DOMAIN input_file =>
                    \A r \in 1..Len(input_file[name]) :
                        "ENTITY_TYPE" \notin DOMAIN Deref(input_file[name][r])

====
